---------------------------- MODULE Spec2Model ----------------------------
(***************************************************************************)
(* Conway's Game of Life engine (game.c), its pattern catalog              *)
(* (patterns.c) and the parts of the driver that use them.                 *)
(*                                                                         *)
(* The caller holds the pointer game; the Game struct it points to is the  *)
(* record g, and the two int buffers live in the heap mem, a function from *)
(* buffer addresses to arrays indexed 0..size-1, so that g.cells and       *)
(* g.next are pointers that game_step can exchange without copying.        *)
(***************************************************************************)
EXTENDS Integers, Sequences, FiniteSets, TLC

VARIABLES
    game,       \* the caller's Game *: NULL or ADDR_G
    g,          \* the struct it points to: [width, height, cells, next]
    mem,        \* heap: buffer address -> [0..size-1 -> int]
    pc,         \* where the caller is: "start", "live", "seeded", "pass", "failed",
                \* "destroyed", "aborted"
    step_x,     \* loop variable x of game_step
    step_y,     \* loop variable y of game_step
    op,         \* the last call: its name, arguments and return value
    before,     \* history: g and mem as they were when game_step began
    generation, \* the driver's generation counter
    seed,       \* the driver's PatternType pt and the origin it placed it at
    allocs,     \* the allocator's books: blocks handed out, pointers freed
    app         \* main's locals and where main is (record, see AppStart)

vars == <<game, g, mem, pc, step_x, step_y, op, before, generation, seed, allocs, app>>

-----------------------------------------------------------------------------
(* Bounds of the model *)

\* coordinates tried by callers reach this far past each edge of the grid
Margin == 1

\* dimensions handed to game_create in the interface specification
CreateDims == -1 .. 2

\* game_step is called at most this many times in a run that counts them
MaxGen == 2

\* <<width, height>> of the grids game_step is followed on cell by cell
PassDims == {<<1, 1>>, <<3, 2>>, <<2, 3>>, <<3, 3>>, <<4, 3>>}

\* generations a placed pattern is followed for
MaxLifeGen == 6

\* generations a pattern placed alone is followed for
MaxAloneGen == 90

\* <<width, height>> of the grids every operation is applied to in any order
MixDims == {<<2, 2>>, <<3, 1>>}

\* origins patterns are loaded at on those grids
MixOrigins == {<<0, 0>>, <<-1, 0>>, <<-1, -1>>}

\* <<width, height>> of the grids a single cell is set alive on
SingleDims == {<<5, 5>>, <<1, 1>>, <<4, 1>>, <<2, 3>>}

\* <<width, height>> of the grids placed patterns evolve on
LifeDims == {<<10, 10>>, <<8, 7>>}

\* pattern origins reach this far past each edge of the grid
OriginMargin == 3

\* dimensions handed to game_create where the product of two of them may pass
\* INT_MAX: 65536 * 65536 = 2^32, 65536 * 65537 = 2^32 + 65536
WideDims == {-1, 0, 1, 2, 3, 65536, 65537}

\* <<--width, --height>> given to main: 4x4 holds the glider placed at (1, 1)
\* whole, 8x6 clips the Gosper gun placed at (2, 1)
DriverDims == {<<4, 4>>, <<8, 6>>}

\* --pattern given to main: the default, two catalog names and a name that
\* differs from one only in case
PatternArgs == {"random", "glider", "gosper", "Glider"}

\* --fps given to main, as atoi returns it
FpsArgs == {0, 59, 75}

\* the driver's loop handles at most this many + / = / - key events in a run
MaxSpeedKeys == 2

\* the driver's loop stops stepping at this generation
MaxDriverGen == 2

\* <<width, height>> of the grids patterns are placed on: one that clips every
\* pattern and one that holds the largest (36x9 and 13x13) whole
PatternDims == {<<6, 5>>, <<40, 14>>}

-----------------------------------------------------------------------------
(* C library *)

NULL == 0

\* the two addresses calloc hands out for the two buffers of one Game
ADDR_A == 1
ADDR_B == 2

\* the address malloc hands out for the Game struct
ADDR_G == 3

\* stdlib's RAND_MAX; 32767 is the smallest value the C standard allows
RAND_MAX == 32767

\* limits.h: the largest value of a 32-bit int
INT_MAX == 2147483647

Abs(n) == IF n < 0 THEN -n ELSE n

\* whether the int product a * b lies outside INT_MIN .. INT_MAX, which the C
\* standard leaves undefined (a and b above INT_MIN). The one product of
\* magnitude INT_MAX + 1 that fits is the negative one.
mul_int_overflows(a, b) ==
    LET m == Abs(a)
        n == Abs(b)
    IN  /\ m # 0
        /\ n > (INT_MAX \div m)
        /\ ~(/\ (a < 0) # (b < 0)
              /\ n = (INT_MAX \div m) + 1
              /\ (INT_MAX % m) = m - 1)

\* the low 32 bits of the product of two magnitudes below 2^31, as the pair
\* <<high 16 bits, low 16 bits>>, every intermediate value below 2^31
mul_low32(m, n) ==
    LET ml == m % 65536
        mh == m \div 65536
        nl == n % 65536
        nh == n \div 65536
        p0 == ml * (nl % 256)
        p1 == ml * (nl \div 256)
        s  == p0 + (p1 % 256) * 256
        c  == (s \div 65536) + (p1 \div 256)
                  + ((mh * nl) % 65536) + ((ml * nh) % 65536)
    IN  << c % 65536, s % 65536 >>

\* two's complement negation of a 32-bit pattern <<high, low>>
neg32(u) ==
    IF u[2] = 0
    THEN << (65536 - u[1]) % 65536, 0 >>
    ELSE << 65535 - u[1], 65536 - u[2] >>

\* the int whose 32-bit pattern is <<high, low>>
as_int(u) ==
    IF u[1] >= 32768 THEN (u[1] - 65536) * 65536 + u[2] ELSE u[1] * 65536 + u[2]

\* a * b on ints as the processor's multiply computes it: the product when it
\* fits, and its low 32 bits read as an int when it overflows
mul_int(a, b) ==
    LET u == mul_low32(Abs(a), Abs(b))
    IN  as_int(IF (a < 0) # (b < 0) THEN neg32(u) ELSE u)

\* calloc(size, sizeof(int)) with an int size converted to size_t: a negative
\* size becomes a huge count whose product with sizeof(int) overflows, so the
\* call fails; a zero size may return NULL or an empty block (avail); a
\* positive size succeeds when memory is available (avail).
calloc_ok(size, avail) == size >= 0 /\ avail

\* a block as malloc returns it, its contents left over from earlier use
\* (faulty variant of calloc_block)
calloc_block_dirty(size) == [i \in 0 .. size - 1 |-> 1]

\* the zeroed block calloc returns
calloc_block(size) == [i \in 0 .. size - 1 |-> 0]

\* (float)n: exact below 2^24, rounded to a multiple of 2 (ties to even) in
\* [2^24, 2^25); no larger value is converted in this model
ToFloat(n) ==
    IF n < 16777216 THEN n
    ELSE IF n % 2 = 0 THEN n
    ELSE IF ((n - 1) \div 2) % 2 = 0 THEN n - 1 ELSE n + 1

-----------------------------------------------------------------------------
(* game.c *)

\* the value of g while no Game struct exists
NoGame == [width |-> 0, height |-> 0, cells |-> NULL, next |-> NULL]

\* the allocator's books before anything is allocated: made is the set of
\* blocks malloc and calloc have handed out, freed the non-null pointers passed
\* to free, in the order of the calls
NoAllocs == [made |-> {}, freed |-> <<>>]

\* the books after the non-null pointers of set ps have been handed out
allocated(A, ps) == [A EXCEPT !.made = @ \cup (ps \ {NULL})]

\* free(p): free(NULL) does nothing
free(A, p) == IF p = NULL THEN A ELSE [A EXCEPT !.freed = Append(@, p)]

\* game_create whose failure path forgets free(g->cells) (faulty variant)
game_create_leak(width, height, okG, okC, okN) ==
    IF ~okG
    THEN [ret |-> NULL, g |-> NoGame, mem |-> <<>>, allocs |-> NoAllocs]
    ELSE LET size  == mul_int(width, height)
             cells == IF calloc_ok(size, okC) THEN ADDR_A ELSE NULL
             next  == IF calloc_ok(size, okN) THEN ADDR_B ELSE NULL
             books == allocated(NoAllocs, {ADDR_G, cells, next})
         IN  IF cells = NULL \/ next = NULL
             THEN [ret |-> NULL, g |-> NoGame,
                   mem |-> IF cells = NULL THEN <<>>
                           ELSE (ADDR_A :> calloc_block(size)),
                   allocs |-> free(free(books, next), ADDR_G)]
             ELSE [ret |-> ADDR_G,
                   g   |-> [width |-> width, height |-> height,
                            cells |-> cells, next |-> next],
                   mem |-> (ADDR_A :> calloc_block(size)) @@
                           (ADDR_B :> calloc_block(size)),
                   allocs |-> books]

\* game_create: okG, okC, okN say whether malloc and the two callocs find memory.
\* Returns the pointer (ret), the struct it points to (g), the heap (mem) and
\* the allocator's books (allocs).
game_create(width, height, okG, okC, okN) ==
    IF ~okG
    THEN [ret |-> NULL, g |-> NoGame, mem |-> <<>>, allocs |-> NoAllocs]
    ELSE LET size  == mul_int(width, height)
             cells == IF calloc_ok(size, okC) THEN ADDR_A ELSE NULL
             next  == IF calloc_ok(size, okN) THEN ADDR_B ELSE NULL
             books == allocated(NoAllocs, {ADDR_G, cells, next})
         IN  IF cells = NULL \/ next = NULL
             THEN [ret |-> NULL, g |-> NoGame, mem |-> <<>>,
                   allocs |-> free(free(free(books, cells), next), ADDR_G)]
             ELSE [ret |-> ADDR_G,
                   g   |-> [width |-> width, height |-> height,
                            cells |-> cells, next |-> next],
                   mem |-> (ADDR_A :> calloc_block(size)) @@
                           (ADDR_B :> calloc_block(size)),
                   allocs |-> books]

\* game_get_cell reading the scratch buffer instead of the current one (faulty variant)
game_get_cell_scratch(M, G, x, y) ==
    IF x < 0 \/ x >= G.width \/ y < 0 \/ y >= G.height
    THEN 0
    ELSE M[G.next][y * G.width + x]

game_get_cell(M, G, x, y) ==
    IF x < 0 \/ x >= G.width \/ y < 0 \/ y >= G.height
    THEN 0
    ELSE M[G.cells][y * G.width + x]

\* game_set_cell without the x < 0 test (faulty variant): the index y*width + x of a
\* negative x lands in the previous row when that index is inside the buffer
game_set_cell_nolow(M, G, x, y, alive) ==
    IF x >= G.width \/ y < 0 \/ y >= G.height
    THEN M
    ELSE IF (y * G.width + x) \in DOMAIN M[G.cells]
         THEN [M EXCEPT ![G.cells][y * G.width + x] = IF alive # 0 THEN 1 ELSE 0]
         ELSE M

\* game_set_cell storing alive as it is given (faulty variant)
game_set_cell_raw(M, G, x, y, alive) ==
    IF x < 0 \/ x >= G.width \/ y < 0 \/ y >= G.height
    THEN M
    ELSE [M EXCEPT ![G.cells][y * G.width + x] = alive]

\* returns the heap after the write
game_set_cell(M, G, x, y, alive) ==
    IF x < 0 \/ x >= G.width \/ y < 0 \/ y >= G.height
    THEN M
    ELSE [M EXCEPT ![G.cells][y * G.width + x] = IF alive # 0 THEN 1 ELSE 0]

\* the (dx, dy) pairs in the order the two nested loops of count_neighbors
\* visit them, (0, 0) skipped
NeighborOffsets ==
    << <<-1, -1>>, <<0, -1>>, <<1, -1>>,
       <<-1,  0>>,            <<1,  0>>,
       <<-1,  1>>, <<0,  1>>, <<1,  1>> >>

\* count_neighbors without the test that skips (0, 0): the cell counts itself
\* (faulty variant)
count_neighbors_self(M, G, x, y) ==
    game_get_cell(M, G, x - 1, y - 1) + game_get_cell(M, G, x, y - 1)
    + game_get_cell(M, G, x + 1, y - 1) + game_get_cell(M, G, x - 1, y)
    + game_get_cell(M, G, x, y) + game_get_cell(M, G, x + 1, y)
    + game_get_cell(M, G, x - 1, y + 1) + game_get_cell(M, G, x, y + 1)
    + game_get_cell(M, G, x + 1, y + 1)

RECURSIVE count_from(_, _, _, _, _)
\* count += game_get_cell(g, x + dx, y + dy) for the offsets k..8
count_from(M, G, x, y, k) ==
    IF k > Len(NeighborOffsets) THEN 0
    ELSE game_get_cell(M, G, x + NeighborOffsets[k][1], y + NeighborOffsets[k][2])
         + count_from(M, G, x, y, k + 1)

count_neighbors(M, G, x, y) == count_from(M, G, x, y, 1)

\* the rule of game_step with the survival test n <= 3, which forgets that a
\* cell with fewer than 2 neighbours dies (faulty variant)
next_value_lonely(alive, n) ==
    IF alive # 0
    THEN (IF n <= 3 THEN 1 ELSE 0)
    ELSE (IF n = 3 THEN 1 ELSE 0)

\* the rule of game_step with the birth test n <= 3 instead of n == 3
\* (faulty variant)
next_value_le3(alive, n) ==
    IF alive # 0
    THEN (IF n = 2 \/ n = 3 THEN 1 ELSE 0)
    ELSE (IF n <= 3 THEN 1 ELSE 0)

\* the rule of game_step with the birth test also applied to n = 2 (faulty variant)
next_value_b2(alive, n) ==
    IF alive # 0
    THEN (IF n = 2 \/ n = 3 THEN 1 ELSE 0)
    ELSE (IF n = 3 \/ n = 2 THEN 1 ELSE 0)

\* the value game_step stores in next for a cell that is `alive` with n neighbours
next_value(alive, n) ==
    IF alive # 0
    THEN (IF n = 2 \/ n = 3 THEN 1 ELSE 0)
    ELSE (IF n = 3 THEN 1 ELSE 0)

\* the loop body of game_step writing into the current buffer (faulty variant)
step_cell_inplace(M, G, x, y) ==
    LET n     == count_neighbors(M, G, x, y)
        alive == M[G.cells][y * G.width + x]
    IN  [M EXCEPT ![G.cells][y * G.width + x] = next_value(alive, n)]

\* the loop body of game_step storing only the cells that come out alive, so a
\* dead result keeps whatever the scratch buffer held (faulty variant)
step_cell_skipdead(M, G, x, y) ==
    LET n     == count_neighbors(M, G, x, y)
        alive == M[G.cells][y * G.width + x]
    IN  IF next_value(alive, n) = 1
        THEN [M EXCEPT ![G.next][y * G.width + x] = 1]
        ELSE M

\* the loop body of game_step for cell (x, y): the heap after the write
step_cell(M, G, x, y) ==
    LET n     == count_neighbors(M, G, x, y)
        alive == M[G.cells][y * G.width + x]
    IN  [M EXCEPT ![G.next][y * G.width + x] = next_value(alive, n)]

RECURSIVE step_row(_, _, _, _)
\* the inner loop of game_step from column x of row y.  A write never changes
\* the set of allocated blocks; comparing the domains makes the write of one
\* iteration be evaluated before the next iteration starts, as in the C loop.
step_row(M, G, x, y) ==
    IF x < G.width
    THEN LET cell == step_cell(M, G, x, y)
         IN  IF DOMAIN cell = DOMAIN M THEN step_row(cell, G, x + 1, y) ELSE M
    ELSE M

RECURSIVE step_rows(_, _, _)
\* the outer loop of game_step from row y
step_rows(M, G, y) ==
    IF y < G.height
    THEN LET row == step_row(M, G, 0, y)
         IN  IF DOMAIN row = DOMAIN M THEN step_rows(row, G, y + 1) ELSE M
    ELSE M

\* the swap of game_step without its temporary: both pointers end up naming
\* the scratch buffer (faulty variant)
swap_buffers_alias(G) == [G EXCEPT !.cells = G.next, !.next = G.next]

\* game_step without its final swap (faulty variant)
swap_buffers_none(G) == G

\* the pointer swap that ends game_step
swap_buffers(G) == [G EXCEPT !.cells = G.next, !.next = G.cells]

\* r < density for r = (float)rand() / (float)RAND_MAX and a density given in
\* tenths.  The quotient is compared exactly: float division is monotone and
\* no quotient k/RAND_MAX lies within rounding distance of a density used here.
draw_below(rnd, density10) ==
    ToFloat(rnd) * 10 < density10 * ToFloat(RAND_MAX)

RECURSIVE randomize_row(_, _, _, _, _, _)
\* the inner loop of game_randomize; draws[i] is what rand() returns for cell i
randomize_row(M, G, density10, draws, x, y) ==
    IF x < G.width
    THEN randomize_row(
             [M EXCEPT ![G.cells][y * G.width + x] =
                 IF draw_below(draws[y * G.width + x], density10) THEN 1 ELSE 0],
             G, density10, draws, x + 1, y)
    ELSE M

RECURSIVE randomize_rows(_, _, _, _, _)
randomize_rows(M, G, density10, draws, y) ==
    IF y < G.height
    THEN randomize_rows(randomize_row(M, G, density10, draws, 0, y),
                        G, density10, draws, y + 1)
    ELSE M

game_randomize(M, G, density10, draws) == randomize_rows(M, G, density10, draws, 0)

\* game_clear without its second memset (faulty variant)
game_clear_current(M, G) ==
    LET n == mul_int(G.width, G.height)
    IN  [M EXCEPT ![G.cells] = [i \in DOMAIN M[G.cells] |->
                                    IF i < n THEN 0 ELSE M[G.cells][i]]]

\* memset of the first width*height ints of both buffers
game_clear(M, G) ==
    LET n == mul_int(G.width, G.height)
    IN  [M EXCEPT ![G.cells] = [i \in DOMAIN M[G.cells] |->
                                    IF i < n THEN 0 ELSE M[G.cells][i]],
                  ![G.next]  = [i \in DOMAIN M[G.next] |->
                                    IF i < n THEN 0 ELSE M[G.next][i]]]

\* game_destroy frees both buffers and the struct: the heap after the call
game_destroy(M, gp) == IF gp = NULL THEN M ELSE <<>>

\* the three calls of free in game_destroy: the allocator's books after them
game_destroy_frees(A, G, gp) ==
    IF gp = NULL THEN A ELSE free(free(free(A, G.cells), G.next), gp)

-----------------------------------------------------------------------------
(* patterns.h, patterns.c *)

\* enum PatternType
PATTERN_GLIDER == 0
PATTERN_BLINKER == 1
PATTERN_TOAD == 2
PATTERN_BEACON == 3
PATTERN_PULSAR == 4
PATTERN_GOSPER_GUN == 5

PatternTypes ==
    {PATTERN_GLIDER, PATTERN_BLINKER, PATTERN_TOAD, PATTERN_BEACON,
     PATTERN_PULSAR, PATTERN_GOSPER_GUN}

\* the coordinate tables c[][2] of the place_* functions
GliderCoords == << <<1,0>>, <<2,1>>, <<0,2>>, <<1,2>>, <<2,2>> >>

BlinkerCoords == << <<0,0>>, <<1,0>>, <<2,0>> >>

ToadCoords == << <<1,0>>, <<2,0>>, <<3,0>>, <<0,1>>, <<1,1>>, <<2,1>> >>

BeaconCoords == << <<0,0>>, <<1,0>>, <<0,1>>, <<3,2>>, <<2,3>>, <<3,3>> >>

PulsarCoords ==
    << <<2,0>>, <<3,0>>, <<4,0>>, <<8,0>>, <<9,0>>, <<10,0>>,
       <<0,2>>, <<5,2>>, <<7,2>>, <<12,2>>,
       <<0,3>>, <<5,3>>, <<7,3>>, <<12,3>>,
       <<0,4>>, <<5,4>>, <<7,4>>, <<12,4>>,
       <<2,5>>, <<3,5>>, <<4,5>>, <<8,5>>, <<9,5>>, <<10,5>>,
       <<2,7>>, <<3,7>>, <<4,7>>, <<8,7>>, <<9,7>>, <<10,7>>,
       <<0,8>>, <<5,8>>, <<7,8>>, <<12,8>>,
       <<0,9>>, <<5,9>>, <<7,9>>, <<12,9>>,
       <<0,10>>, <<5,10>>, <<7,10>>, <<12,10>>,
       <<2,12>>, <<3,12>>, <<4,12>>, <<8,12>>, <<9,12>>, <<10,12>> >>

GosperGunCoords ==
    << <<0,4>>, <<0,5>>, <<1,4>>, <<1,5>>,
       <<10,4>>, <<10,5>>, <<10,6>>, <<11,3>>, <<11,7>>, <<12,2>>, <<12,8>>,
       <<13,2>>, <<13,8>>,
       <<14,5>>, <<15,3>>, <<15,7>>, <<16,4>>, <<16,5>>, <<16,6>>, <<17,5>>,
       <<20,2>>, <<20,3>>, <<20,4>>, <<21,2>>, <<21,3>>, <<21,4>>, <<22,1>>,
       <<22,5>>,
       <<24,0>>, <<24,1>>, <<24,5>>, <<24,6>>,
       <<34,2>>, <<34,3>>, <<35,2>>, <<35,3>> >>

RECURSIVE set_cells_from(_, _, _, _, _, _, _)
\* the loop of set_cells from index i (the C index i is i - 1 here)
set_cells_from(M, G, ox, oy, coords, count, i) ==
    IF i <= count
    THEN set_cells_from(
             game_set_cell(M, G, ox + coords[i][1], oy + coords[i][2], 1),
             G, ox, oy, coords, count, i + 1)
    ELSE M

\* set_cells stopping one coordinate short (faulty variant)
set_cells_short(M, G, ox, oy, coords, count) ==
    set_cells_from(M, G, ox, oy, coords, count - 1, 1)

set_cells(M, G, ox, oy, coords, count) ==
    set_cells_from(M, G, ox, oy, coords, count, 1)

place_glider(M, G, x, y) == set_cells(M, G, x, y, GliderCoords, 5)

\* place_blinker with a count of 2 (faulty variant)
place_blinker_two(M, G, x, y) == set_cells(M, G, x, y, BlinkerCoords, 2)

place_blinker(M, G, x, y) == set_cells(M, G, x, y, BlinkerCoords, 3)

place_toad(M, G, x, y) == set_cells(M, G, x, y, ToadCoords, 6)

place_beacon(M, G, x, y) == set_cells(M, G, x, y, BeaconCoords, 6)

place_pulsar(M, G, x, y) == set_cells(M, G, x, y, PulsarCoords, 48)

\* place_gosper_gun with a count of 35 (faulty variant)
place_gosper_gun_short(M, G, x, y) == set_cells(M, G, x, y, GosperGunCoords, 35)

place_gosper_gun(M, G, x, y) == set_cells(M, G, x, y, GosperGunCoords, 36)

\* the switch of pattern_load: the heap after the call
pattern_load(M, G, type, x, y) ==
    CASE type = PATTERN_GLIDER     -> place_glider(M, G, x, y)
      [] type = PATTERN_BLINKER    -> place_blinker(M, G, x, y)
      [] type = PATTERN_TOAD       -> place_toad(M, G, x, y)
      [] type = PATTERN_BEACON     -> place_beacon(M, G, x, y)
      [] type = PATTERN_PULSAR     -> place_pulsar(M, G, x, y)
      [] type = PATTERN_GOSPER_GUN -> place_gosper_gun(M, G, x, y)
      [] OTHER                     -> M

\* strcmp, as far as its callers look at it: 0 for equal strings
strcmp(a, b) == IF a = b THEN 0 ELSE 1

\* pattern_from_name without the "gosper" alias (faulty variant)
pattern_from_name_noalias(name, out) ==
    IF strcmp(name, "glider") = 0 THEN [ret |-> 1, out |-> PATTERN_GLIDER]
    ELSE IF strcmp(name, "blinker") = 0 THEN [ret |-> 1, out |-> PATTERN_BLINKER]
    ELSE IF strcmp(name, "toad") = 0 THEN [ret |-> 1, out |-> PATTERN_TOAD]
    ELSE IF strcmp(name, "beacon") = 0 THEN [ret |-> 1, out |-> PATTERN_BEACON]
    ELSE IF strcmp(name, "pulsar") = 0 THEN [ret |-> 1, out |-> PATTERN_PULSAR]
    ELSE IF strcmp(name, "gosper_gun") = 0 THEN [ret |-> 1, out |-> PATTERN_GOSPER_GUN]
    ELSE [ret |-> 0, out |-> out]

\* pattern_from_name: the return value and *out after the call
pattern_from_name(name, out) ==
    IF strcmp(name, "glider") = 0 THEN [ret |-> 1, out |-> PATTERN_GLIDER]
    ELSE IF strcmp(name, "blinker") = 0 THEN [ret |-> 1, out |-> PATTERN_BLINKER]
    ELSE IF strcmp(name, "toad") = 0 THEN [ret |-> 1, out |-> PATTERN_TOAD]
    ELSE IF strcmp(name, "beacon") = 0 THEN [ret |-> 1, out |-> PATTERN_BEACON]
    ELSE IF strcmp(name, "pulsar") = 0 THEN [ret |-> 1, out |-> PATTERN_PULSAR]
    ELSE IF strcmp(name, "gosper") = 0 THEN [ret |-> 1, out |-> PATTERN_GOSPER_GUN]
    ELSE IF strcmp(name, "gosper_gun") = 0 THEN [ret |-> 1, out |-> PATTERN_GOSPER_GUN]
    ELSE [ret |-> 0, out |-> out]

\* main's PatternType pt before pattern_from_name has written it
PT_UNSET == -1

\* the driver has resolved and placed nothing yet
NoSeed == [type |-> PT_UNSET, x |-> 0, y |-> 0]

\* main's locals as main begins (main.c 58-63; those declared later hold 0
\* until their declaration is reached) and, as history, what main has done:
\*   at           where main is: "args", "sdl_init", "create", "renderer",
\*                "seed", "events", "draw", "cleanup", "returned"
\*   ret          main's return value, -1 until it returns
\*   density10    density in tenths
\*   renderer     the Renderer *: NULL or ADDR_R
\*   speed_keys   + / = / - key events handled
\*   steps        game_step calls since main began or since the last R key
\*   destroys     game_destroy calls
\*   reads        the coordinates renderer_draw last passed to game_get_cell
AppStart ==
    [at |-> "args", ret |-> -1,
     grid_w |-> 80, grid_h |-> 60, pattern_name |-> "random", density10 |-> 3,
     target_fps |-> 10, frame_delay |-> 0, running |-> 0, paused |-> 0,
     renderer |-> NULL, speed_keys |-> 0,
     steps |-> 0, destroys |-> 0, reads |-> {}]

-----------------------------------------------------------------------------
(* Callers of the interface of game.h *)

\* arguments the callers of the model pass
AliveArgs == {-1, 0, 1, 2}

\* densities in tenths: -0.5, 0.0, 0.3 (the driver's default), 1.0, 1.5
Densities == {-5, 0, 3, 10, 15}

\* values of rand(): both ends of its range
RandDraws == {0, RAND_MAX}

\* the coordinates callers try on grid G: every cell and Margin past each edge
XCoords(G) == -Margin .. (IF G.width > 0 THEN G.width ELSE 0) - 1 + Margin
YCoords(G) == -Margin .. (IF G.height > 0 THEN G.height ELSE 0) - 1 + Margin

Call(name, x, y, a, ret) ==
    [name |-> name, x |-> x, y |-> y, a |-> a, ret |-> ret, s |-> ""]

\* a call whose argument is a string
CallStr(name, str, a, ret) ==
    [name |-> name, x |-> 0, y |-> 0, a |-> a, ret |-> ret, s |-> str]

Snapshot == [g |-> g, mem |-> mem]

Init ==
    /\ game = NULL
    /\ g = NoGame
    /\ mem = <<>>
    /\ pc = "start"
    /\ step_x = 0
    /\ step_y = 0
    /\ op = Call("none", 0, 0, 0, 0)
    /\ before = [g |-> NoGame, mem |-> <<>>]
    /\ generation = 0
    /\ seed = NoSeed
    /\ app = AppStart
    /\ allocs = NoAllocs

Create(width, height, okG, okC, okN) ==
    /\ pc = "start"
    /\ LET r == game_create(width, height, okG, okC, okN)
       IN  /\ game' = r.ret
           /\ g' = r.g
           /\ mem' = r.mem
           /\ pc' = IF r.ret = NULL THEN "failed" ELSE "live"
           /\ op' = Call("game_create", width, height, 0, r.ret)
           /\ allocs' = r.allocs
    /\ UNCHANGED <<step_x, step_y, before, generation, seed, app>>

Destroy ==
    /\ pc = "live"
    /\ mem' = game_destroy(mem, game)
    /\ pc' = "destroyed"
    /\ op' = Call("game_destroy", 0, 0, 0, 0)
    /\ allocs' = game_destroy_frees(allocs, g, game)
    /\ UNCHANGED <<game, g, step_x, step_y, before, generation, seed, app>>

GetCell(x, y) ==
    /\ pc = "live"
    /\ op' = Call("game_get_cell", x, y, 0, game_get_cell(mem, g, x, y))
    /\ UNCHANGED <<game, g, mem, pc, step_x, step_y, before, generation, seed, allocs, app>>

SetCell(x, y, alive) ==
    /\ pc = "live"
    /\ mem' = game_set_cell(mem, g, x, y, alive)
    /\ op' = Call("game_set_cell", x, y, alive, 0)
    /\ UNCHANGED <<game, g, pc, step_x, step_y, before, generation, seed, allocs, app>>

Clear ==
    /\ pc = "live"
    /\ mem' = game_clear(mem, g)
    /\ op' = Call("game_clear", 0, 0, 0, 0)
    /\ UNCHANGED <<game, g, pc, step_x, step_y, before, generation, seed, allocs, app>>

Randomize(density10, draws) ==
    /\ pc = "live"
    /\ mem' = game_randomize(mem, g, density10, draws)
    /\ op' = Call("game_randomize", 0, 0, density10, 0)
    /\ UNCHANGED <<game, g, pc, step_x, step_y, before, generation, seed, allocs, app>>

\* one whole call of game_step: the pass over every cell, then the swap
Step ==
    /\ pc = "live"
    /\ mem' = step_rows(mem, g, 0)
    /\ g' = swap_buffers(g)
    /\ op' = Call("game_step", 0, 0, 0, 0)
    /\ UNCHANGED <<game, pc, step_x, step_y, before, generation, seed, allocs, app>>

Next ==
    \/ \E width \in CreateDims, height \in CreateDims, okG, okC, okN \in BOOLEAN :
           Create(width, height, okG, okC, okN)
    \/ Destroy
    \/ pc = "live" /\ \E x \in XCoords(g), y \in YCoords(g) : GetCell(x, y)
    \/ pc = "live" /\ \E x \in XCoords(g), y \in YCoords(g), alive \in AliveArgs :
           SetCell(x, y, alive)
    \/ Clear
    \/ pc = "live" /\ \E density10 \in Densities :
           \E draws \in [DOMAIN mem[g.cells] -> RandDraws] : Randomize(density10, draws)
    \/ Step

Spec == Init /\ [][Next]_vars

-----------------------------------------------------------------------------
(* Properties of the interface, checked under Spec *)

\* the cells of grid G, as coordinate pairs
Cells(G) == (0 .. G.width - 1) \X (0 .. G.height - 1)

OutOfRange(G, x, y) == x < 0 \/ x >= G.width \/ y < 0 \/ y >= G.height

\* the value of cell c = <<x, y>> in the current-generation buffer
Current(M, G, c) == M[G.cells][c[2] * G.width + c[1]]

\* the value of cell c = <<x, y>> in the scratch buffer
Scratch(M, G, c) == M[G.next][c[2] * G.width + c[1]]

\* C3: game_create returns no grid for any pair of dimensions with
\* width <= 0 or height <= 0; a grid is returned only when both are positive.
C3_CreateRejectsNonPositive ==
    /\ (op.name = "game_create" /\ (op.x <= 0 \/ op.y <= 0)) => op.ret = NULL
    /\ (game # NULL /\ pc # "start") => (g.width > 0 /\ g.height > 0)

\* C4: game_get_cell(x, y) returns 0 for every coordinate outside the grid and
\* otherwise the value at index y*width + x of the current-generation buffer.
C4_GetCellReadsCurrent ==
    op.name = "game_get_cell" =>
        IF OutOfRange(g, op.x, op.y)
        THEN op.ret = 0
        ELSE op.ret = mem[g.cells][op.y * g.width + op.x]

\* an in-range read of a live cell whose scratch value differs
C4_Witness ==
    /\ op.name = "game_get_cell"
    /\ ~OutOfRange(g, op.x, op.y)
    /\ op.ret = 1
    /\ mem[g.next][op.y * g.width + op.x] = 0
    /\ \E c \in Cells(g) : Current(mem, g, c) = 0

\* C5: game_set_cell at an out-of-range coordinate, with any alive value,
\* leaves every cell of both buffers and width and height unchanged.
C5_SetCellOutOfRangeNoEffect ==
    [][(op'.name = "game_set_cell" /\ OutOfRange(g, op'.x, op'.y))
           => (mem' = mem /\ g' = g)]_vars

\* set_cell(-1, 1, alive # 0) has been called on a grid with at least two rows
\* and cell (width-1, 0), whose index is 1*width - 1, is still dead
C5_Witness ==
    /\ op.name = "game_set_cell"
    /\ op.x = -1 /\ op.y = 1 /\ op.a # 0
    /\ g.width >= 1 /\ g.height >= 2
    /\ mem[g.cells][1 * g.width - 1] = 0

\* C6: game_randomize with a density >= 1.0 leaves every cell alive and with a
\* density <= 0.0 leaves every cell dead, whatever rand() returns in 0..RAND_MAX.
C6_RandomizeExtremes ==
    op.name = "game_randomize" =>
        /\ op.a >= 10 => \A c \in Cells(g) : Current(mem, g, c) = 1
        /\ op.a <= 0  => \A c \in Cells(g) : Current(mem, g, c) = 0

\* how many times pointer p has been passed to free
TimesFreed(A, p) == Cardinality({ i \in DOMAIN A.freed : A.freed[i] = p })

\* C14: when game_create fails because an allocation fails, no grid is
\* returned and every block that was allocated has been freed exactly once
\* (and nothing else has been freed), so nothing remains allocated.
C14_CreateFailureReleasesAll ==
    (op.name = "game_create" /\ op.ret = NULL) =>
        /\ game = NULL
        /\ \A p \in allocs.made : TimesFreed(allocs, p) = 1
        /\ \A i \in DOMAIN allocs.freed : allocs.freed[i] \in allocs.made
        /\ DOMAIN mem = {}

\* game_create has failed on its second buffer after the struct and the first
\* buffer were allocated
C14_Witness ==
    /\ op.name = "game_create"
    /\ op.ret = NULL
    /\ allocs.made = {ADDR_G, ADDR_A}
    /\ Len(allocs.freed) = 2

\* C17: a freshly created grid has every in-range cell dead in both buffers,
\* and game_get_cell(x, y) is 0 for all 0 <= x < width, 0 <= y < height.
C17_FreshGridAllDead ==
    (op.name = "game_create" /\ op.ret # NULL) =>
        \A c \in Cells(g) :
            /\ Current(mem, g, c) = 0
            /\ Scratch(mem, g, c) = 0
            /\ game_get_cell(mem, g, c[1], c[2]) = 0

\* game_create(2, 2) has just returned a grid
C17_Witness ==
    /\ op.name = "game_create"
    /\ op.ret # NULL
    /\ op.x = 2 /\ op.y = 2
    /\ Cardinality(Cells(g)) = 4

\* C20: game_clear sets every cell of the current and of the scratch buffer to
\* dead and leaves width, height and the two buffer pointers as they were;
\* after it game_get_cell is 0 at every coordinate.
C20_ClearKillsBothBuffers ==
    [][op'.name = "game_clear" =>
         /\ g' = g
         /\ DOMAIN mem' = DOMAIN mem
         /\ \A i \in DOMAIN mem'[g.cells] : mem'[g.cells][i] = 0
         /\ \A i \in DOMAIN mem'[g.next] : mem'[g.next][i] = 0
         /\ \A x \in XCoords(g), y \in YCoords(g) : game_get_cell(mem', g', x, y) = 0
    ]_vars

\* game_clear has been called on a 2x2 grid that has been stepped before
C20_Witness ==
    /\ op.name = "game_clear"
    /\ g.width = 2 /\ g.height = 2
    /\ g.cells = ADDR_B
    /\ \A c \in Cells(g) : Current(mem, g, c) = 0 /\ Scratch(mem, g, c) = 0

-----------------------------------------------------------------------------
(* The driver's seeding (main.c 151-162): resolve a name, place the pattern *)

\* names given to --pattern
LookupNames ==
    {"glider", "blinker", "toad", "beacon", "pulsar", "gosper", "gosper_gun",
     "random", "Glider", "GOSPER", "gosper_", "nonexistent", ""}

\* what a grid of `size` cells may hold when a pattern is placed on it: all
\* dead (after game_clear), all alive, or every third cell alive
SeedFills(size) ==
    { [i \in 0 .. size - 1 |-> 0],
      [i \in 0 .. size - 1 |-> 1],
      [i \in 0 .. size - 1 |-> IF i % 3 = 0 THEN 1 ELSE 0] }

OriginsX(G) == -OriginMargin .. G.width - 1 + OriginMargin
OriginsY(G) == -OriginMargin .. G.height - 1 + OriginMargin

InitPattern ==
    /\ \E d \in PatternDims :
         \E fill \in SeedFills(d[1] * d[2]) :
            LET r == game_create(d[1], d[2], TRUE, TRUE, TRUE)
            IN  /\ game = r.ret
                /\ g = r.g
                /\ mem = [r.mem EXCEPT ![r.g.cells] = fill]
                /\ allocs = r.allocs
    /\ pc = "live"
    /\ step_x = 0
    /\ step_y = 0
    /\ op = Call("none", 0, 0, 0, 0)
    /\ before = [g |-> NoGame, mem |-> <<>>]
    /\ generation = 0
    /\ seed = NoSeed
    /\ app = AppStart

PatternFromName(name) ==
    /\ pc = "live"
    /\ LET r == pattern_from_name(name, seed.type)
       IN  /\ seed' = [seed EXCEPT !.type = r.out]
           /\ op' = CallStr("pattern_from_name", name, r.out, r.ret)
    /\ UNCHANGED <<game, g, mem, pc, step_x, step_y, before, generation, allocs, app>>

\* pattern_load with the type pattern_from_name found
LoadFound(x, y) ==
    /\ pc = "live"
    /\ op.name = "pattern_from_name"
    /\ op.ret # 0
    /\ mem' = pattern_load(mem, g, seed.type, x, y)
    /\ op' = Call("pattern_load", x, y, seed.type, 0)
    /\ seed' = [seed EXCEPT !.x = x, !.y = y]
    /\ pc' = "seeded"
    /\ UNCHANGED <<game, g, step_x, step_y, before, generation, allocs, app>>

NextPattern ==
    \/ \E name \in LookupNames : PatternFromName(name)
    \/ \E x \in OriginsX(g), y \in OriginsY(g) : LoadFound(x, y)

SpecPattern == InitPattern /\ [][NextPattern]_vars

\* the coordinate tables as sets of (dx, dy) pairs
GliderSet == { GliderCoords[i] : i \in DOMAIN GliderCoords }
BlinkerSet == { BlinkerCoords[i] : i \in DOMAIN BlinkerCoords }
ToadSet == { ToadCoords[i] : i \in DOMAIN ToadCoords }
BeaconSet == { BeaconCoords[i] : i \in DOMAIN BeaconCoords }
PulsarSet == { PulsarCoords[i] : i \in DOMAIN PulsarCoords }
GosperGunSet == { GosperGunCoords[i] : i \in DOMAIN GosperGunCoords }

\* the (dx, dy) pairs of the table pattern_load uses for a pattern type
PatternSet(type) ==
    CASE type = PATTERN_GLIDER     -> GliderSet
      [] type = PATTERN_BLINKER    -> BlinkerSet
      [] type = PATTERN_TOAD       -> ToadSet
      [] type = PATTERN_BEACON     -> BeaconSet
      [] type = PATTERN_PULSAR     -> PulsarSet
      [] type = PATTERN_GOSPER_GUN -> GosperGunSet

\* cell c is one of the cells (ox+dx, oy+dy) of the pattern placed at (ox, oy)
InStamp(type, ox, oy, c) == <<c[1] - ox, c[2] - oy>> \in PatternSet(type)

\* the cells (ox+dx, oy+dy) of a pattern placed at origin (ox, oy)
Stamp(type, ox, oy) == { <<ox + d[1], oy + d[2]>> : d \in PatternSet(type) }

\* C7: pattern_load at any origin sets alive exactly the pattern's cells that
\* fall inside the grid, leaves every other cell of the current buffer as it
\* was, and writes nothing else: not the scratch buffer, not the struct, and no
\* index outside the buffers.
C7_PatternLoadStampsClipped ==
    [][op'.name = "pattern_load" =>
         /\ g' = g
         /\ DOMAIN mem' = DOMAIN mem
         /\ mem'[g.next] = mem[g.next]
         /\ mem'[g.cells] =
                [i \in DOMAIN mem[g.cells] |->
                    IF InStamp(op'.a, op'.x, op'.y, <<i % g.width, i \div g.width>>)
                    THEN 1
                    ELSE mem[g.cells][i]]
    ]_vars

\* a pattern placed at a negative origin: part of it is clipped, part of it is
\* inside, and outside its cells both a live and a dead cell are left
C7_Witness ==
    /\ op.name = "pattern_load"
    /\ op.x < 0
    /\ LET S == Stamp(op.a, op.x, op.y)
       IN  /\ \E c \in S : c \notin Cells(g)
           /\ \E c \in S : c \in Cells(g)
           /\ \E c \in Cells(g) \ S : Current(mem, g, c) = 1
           /\ \E c \in Cells(g) \ S : Current(mem, g, c) = 0

\* C8: pattern_from_name finds exactly the seven names glider, blinker, toad,
\* beacon, pulsar, gosper and gosper_gun (case-sensitive); gosper and
\* gosper_gun give the same identifier, the other five pairwise distinct ones;
\* for any other name it returns 0 (not found).
C8_PatternFromName ==
    /\ Cardinality(PatternTypes) = 6
    /\ op.name = "pattern_from_name" =>
         /\ op.ret = IF op.s \in {"glider", "blinker", "toad", "beacon", "pulsar",
                                   "gosper", "gosper_gun"} THEN 1 ELSE 0
         /\ op.s = "glider"     => op.a = PATTERN_GLIDER
         /\ op.s = "blinker"    => op.a = PATTERN_BLINKER
         /\ op.s = "toad"       => op.a = PATTERN_TOAD
         /\ op.s = "beacon"     => op.a = PATTERN_BEACON
         /\ op.s = "pulsar"     => op.a = PATTERN_PULSAR
         /\ op.s = "gosper"     => op.a = PATTERN_GOSPER_GUN
         /\ op.s = "gosper_gun" => op.a = PATTERN_GOSPER_GUN
         /\ op.a = seed.type

\* the alias "gosper" has been resolved to the gun
C8_Witness ==
    /\ op.name = "pattern_from_name"
    /\ op.s = "gosper"
    /\ op.ret = 1
    /\ op.a = PATTERN_GOSPER_GUN

-----------------------------------------------------------------------------
(* game_step followed through its two loops, one cell at a time *)

\* a grid of any generation, over a scratch buffer that is fresh (zeros) or
\* stale (ones)
InitPass ==
    /\ \E d \in PassDims :
         \E fill \in [0 .. d[1] * d[2] - 1 -> {0, 1}], stale \in {0, 1} :
            LET r == game_create(d[1], d[2], TRUE, TRUE, TRUE)
            IN  /\ game = r.ret
                /\ g = r.g
                /\ mem = [r.mem EXCEPT ![r.g.cells] = fill,
                                       ![r.g.next] = [i \in DOMAIN fill |-> stale]]
                /\ allocs = r.allocs
    /\ pc = "live"
    /\ step_x = 0
    /\ step_y = 0
    /\ op = Call("none", 0, 0, 0, 0)
    /\ before = [g |-> NoGame, mem |-> <<>>]
    /\ generation = 0
    /\ seed = NoSeed
    /\ app = AppStart

\* game_step is entered: y = 0, x = 0
StepBegin ==
    /\ pc = "live"
    /\ generation < MaxGen
    /\ pc' = "pass"
    /\ step_x' = 0
    /\ step_y' = 0
    /\ op' = Call("game_step", 0, 0, 0, 0)
    /\ before' = Snapshot
    /\ UNCHANGED <<game, g, mem, generation, seed, allocs, app>>

\* the loop body for cell (x, y), then x++
StepCell ==
    /\ pc = "pass"
    /\ step_y < g.height
    /\ step_x < g.width
    /\ mem' = step_cell(mem, g, step_x, step_y)
    /\ step_x' = step_x + 1
    /\ UNCHANGED <<game, g, pc, step_y, op, before, generation, seed, allocs, app>>

\* the inner loop ends: y++, x = 0
StepRowEnd ==
    /\ pc = "pass"
    /\ step_y < g.height
    /\ ~(step_x < g.width)
    /\ step_x' = 0
    /\ step_y' = step_y + 1
    /\ UNCHANGED <<game, g, mem, pc, op, before, generation, seed, allocs, app>>

\* the end of game_step copying the scratch buffer into the current one
\* instead of exchanging the pointers (faulty variant)
StepSwapCopy ==
    /\ pc = "pass"
    /\ ~(step_y < g.height)
    /\ mem' = [mem EXCEPT ![g.cells] = mem[g.next]]
    /\ pc' = "live"
    /\ generation' = generation + 1
    /\ UNCHANGED <<game, g, step_x, step_y, op, before, seed, allocs, app>>

\* the outer loop ends: the pointers are swapped and game_step returns
StepSwap ==
    /\ pc = "pass"
    /\ ~(step_y < g.height)
    /\ g' = swap_buffers(g)
    /\ pc' = "live"
    /\ generation' = generation + 1
    /\ UNCHANGED <<game, mem, step_x, step_y, op, before, seed, allocs, app>>

NextPass == StepBegin \/ StepCell \/ StepRowEnd \/ StepSwap

SpecPass == InitPass /\ [][NextPass]_vars

\* the live Moore neighbours of cell c among the cells of the grid
LiveNeighbours(M, G, c) ==
    { d \in Cells(G) :
        /\ d # c
        /\ d[1] - c[1] \in {-1, 0, 1}
        /\ d[2] - c[2] \in {-1, 0, 1}
        /\ Current(M, G, d) = 1 }

\* Conway's rule for cell c of the generation held by M, G
AliveNext(M, G, c) ==
    LET n == Cardinality(LiveNeighbours(M, G, c))
    IN  \/ Current(M, G, c) = 1 /\ n \in {2, 3}
        \/ Current(M, G, c) = 0 /\ n = 3

\* C1: after game_step every cell is alive iff, in the generation before the
\* step, it was alive with 2 or 3 live Moore neighbours or dead with exactly 3,
\* cells outside the grid counting as dead.
C1_StepAppliesConway ==
    (pc = "live" /\ op.name = "game_step") =>
        \A c \in Cells(g) :
            Current(mem, g, c) = IF AliveNext(before.mem, before.g, c) THEN 1 ELSE 0

\* a step of a 3x3 grid has completed in which the centre cell was born, a
\* corner cell died and the generation changed
C1_Witness ==
    /\ pc = "live" /\ op.name = "game_step"
    /\ g.width = 3 /\ g.height = 3
    /\ Current(before.mem, before.g, <<1, 1>>) = 0 /\ Current(mem, g, <<1, 1>>) = 1
    /\ Current(before.mem, before.g, <<0, 0>>) = 1 /\ Current(mem, g, <<0, 0>>) = 0
    /\ generation = 2

\* C2: at every point of the pass of game_step the current buffer holds the
\* generation it held when the step began; only the scratch buffer is written.
C2_PassLeavesCurrentAlone ==
    pc = "pass" =>
        /\ g = before.g
        /\ DOMAIN mem = DOMAIN before.mem
        /\ mem[g.cells] = before.mem[g.cells]

\* in the middle of a pass: a cell already processed got a scratch value that
\* differs from both its current value and what the scratch buffer held
C2_Witness ==
    /\ pc = "pass"
    /\ step_y >= 1
    /\ step_y < g.height
    /\ \E c \in Cells(g) :
          /\ Scratch(mem, g, c) # Current(mem, g, c)
          /\ Scratch(mem, g, c) # Scratch(before.mem, g, c)

-----------------------------------------------------------------------------
(* A pattern placed on a fresh grid and stepped, as the driver's loop does *)

InitLife ==
    /\ \E d \in LifeDims :
         LET r == game_create(d[1], d[2], TRUE, TRUE, TRUE)
         IN  /\ game = r.ret
             /\ g = r.g
             /\ mem = r.mem
             /\ allocs = r.allocs
    /\ pc = "live"
    /\ step_x = 0
    /\ step_y = 0
    /\ op = Call("none", 0, 0, 0, 0)
    /\ before = [g |-> NoGame, mem |-> <<>>]
    /\ generation = 0
    /\ seed = NoSeed
    /\ app = AppStart

\* pattern_load(game, type, x, y) on the fresh grid
Place(type, x, y) ==
    /\ pc = "live"
    /\ mem' = pattern_load(mem, g, type, x, y)
    /\ op' = Call("pattern_load", x, y, type, 0)
    /\ seed' = [type |-> type, x |-> x, y |-> y]
    /\ pc' = "seeded"
    /\ UNCHANGED <<game, g, step_x, step_y, before, generation, allocs, app>>

\* one frame of the running loop: game_step(game); generation++
Tick ==
    /\ pc = "seeded"
    /\ generation < MaxLifeGen
    /\ mem' = step_rows(mem, g, 0)
    /\ g' = swap_buffers(g)
    /\ generation' = generation + 1
    /\ op' = Call("game_step", 0, 0, 0, 0)
    /\ UNCHANGED <<game, pc, step_x, step_y, before, seed, allocs, app>>

NextLife ==
    \/ pc = "live" /\ \E type \in PatternTypes, x \in OriginsX(g), y \in OriginsY(g) :
           Place(type, x, y)
    \/ Tick

SpecLife == InitLife /\ [][NextLife]_vars

\* the live cells of the current generation
LiveCells(M, G) == { c \in Cells(G) : Current(M, G, c) # 0 }

\* the cells of set S moved by (dx, dy)
Shifted(S, dx, dy) == { <<c[1] + dx, c[2] + dy>> : c \in S }

\* C9: on a fresh 10x10 grid the blinker placed at (3,3) is exactly
\* (3,3),(4,3),(5,3); after one step exactly (4,2),(4,3),(4,4); after two
\* steps the first three again, alternating on every later step.
C9_BlinkerPeriod2 ==
    (/\ pc = "seeded"
     /\ g.width = 10 /\ g.height = 10
     /\ seed = [type |-> PATTERN_BLINKER, x |-> 3, y |-> 3])
    => LiveCells(mem, g) = IF generation % 2 = 0
                           THEN {<<3, 3>>, <<4, 3>>, <<5, 3>>}
                           ELSE {<<4, 2>>, <<4, 3>>, <<4, 4>>}

\* the blinker of C9 after three steps, vertical
C9_Witness ==
    /\ pc = "seeded"
    /\ g.width = 10 /\ g.height = 10
    /\ seed = [type |-> PATTERN_BLINKER, x |-> 3, y |-> 3]
    /\ generation = 3
    /\ LiveCells(mem, g) = {<<4, 2>>, <<4, 3>>, <<4, 4>>}

\* the glider placed at (ox, oy) keeps one cell between itself and every edge
\* of grid G during four generations: it stays inside columns ox..ox+3 and
\* rows oy..oy+3
GliderClearOfEdges(G, ox, oy) ==
    /\ ox >= 1 /\ ox + 3 <= G.width - 2
    /\ oy >= 1 /\ oy + 3 <= G.height - 2

\* C10: a glider placed at (ox, oy) on an empty grid, far enough from the
\* edges, is after four steps exactly its five cells moved by (+1, +1).
C10_GliderTranslates ==
    (/\ pc = "seeded"
     /\ seed.type = PATTERN_GLIDER
     /\ GliderClearOfEdges(g, seed.x, seed.y))
    => /\ generation <= 4 =>
            LiveCells(mem, g) \subseteq
                (seed.x .. seed.x + 3) \X (seed.y .. seed.y + 3)
       /\ generation = 4 =>
            LiveCells(mem, g) =
                { <<seed.x + 1 + 1, seed.y + 0 + 1>>, <<seed.x + 2 + 1, seed.y + 1 + 1>>,
                  <<seed.x + 0 + 1, seed.y + 2 + 1>>, <<seed.x + 1 + 1, seed.y + 2 + 1>>,
                  <<seed.x + 2 + 1, seed.y + 2 + 1>> }

\* a glider placed at (2, 1) on the 8x7 grid after four steps
C10_Witness ==
    /\ pc = "seeded"
    /\ seed = [type |-> PATTERN_GLIDER, x |-> 2, y |-> 1]
    /\ g.width = 8 /\ g.height = 7
    /\ GliderClearOfEdges(g, seed.x, seed.y)
    /\ generation = 4
    /\ LiveCells(mem, g) = Shifted(Stamp(PATTERN_GLIDER, 2, 1), 1, 1)

-----------------------------------------------------------------------------
(* More properties of the pass, checked under SpecPass *)

\* what the scratch buffer of a second grid with the same current generation
\* as heap M may hold: zeros, ones, a copy of the current generation, or its
\* complement
TwinScratches(M, G) ==
    { [i \in DOMAIN M[G.cells] |-> 0],
      [i \in DOMAIN M[G.cells] |-> 1],
      M[G.cells],
      [i \in DOMAIN M[G.cells] |-> 1 - M[G.cells][i]] }

\* game_step applied to the grid (M, G): the current generation it leaves
StepResult(M, G) == step_rows(M, G, 0)[G.next]

\* C13: two grids of the same dimensions with identical current generations
\* have identical current generations after game_step, whatever their scratch
\* buffers held: the generation this grid ends with equals the one any twin
\* grid, differing only in its scratch buffer, ends with.
C13_StepDeterministic ==
    (pc = "live" /\ generation >= 1) =>
        \A other \in TwinScratches(before.mem, before.g) :
            StepResult([before.mem EXCEPT ![before.g.next] = other], before.g)
                = mem[g.cells]

\* a step has ended on the 4x3 grid from a stale all-alive scratch buffer, with
\* a result that has both live and dead cells
C13_Witness ==
    /\ pc = "live"
    /\ generation = 1
    /\ g.width = 4 /\ g.height = 3
    /\ \A c \in Cells(g) : Scratch(before.mem, before.g, c) = 1
    /\ \E c \in Cells(g) : Current(mem, g, c) = 1
    /\ \E c \in Cells(g) : Current(mem, g, c) = 0

\* C18: the all-dead grid is a fixed point: when every cell of the current
\* generation is dead on entry to game_step, every cell is dead after it,
\* whatever the scratch buffer contained, and so after any number of steps.
C18_AllDeadFixedPoint ==
    (/\ pc = "live"
     /\ generation >= 1
     /\ \A c \in Cells(before.g) : Current(before.mem, before.g, c) = 0)
    => \A c \in Cells(g) : Current(mem, g, c) = 0

\* a step of the all-dead 4x3 grid has ended that began over a scratch buffer
\* full of live cells
C18_Witness ==
    /\ pc = "live"
    /\ generation = 1
    /\ g.width = 4 /\ g.height = 3
    /\ \A c \in Cells(g) : Current(before.mem, before.g, c) = 0
    /\ \A c \in Cells(g) : Scratch(before.mem, before.g, c) = 1
    /\ \A c \in Cells(g) : Current(mem, g, c) = 0

\* C24: when game_step returns the two buffers have exchanged roles: the
\* scratch pointer is the pointer that was current when the step began and its
\* buffer still holds the previous generation cell for cell, the current
\* pointer is the former scratch pointer and its buffer holds the new
\* generation, and the exchange itself writes no cell of the heap.
C24_StepExchangesBuffers ==
    [][(pc = "pass" /\ pc' = "live") =>
          /\ g'.next = before.g.cells
          /\ g'.cells = before.g.next
          /\ g'.cells # g'.next
          /\ mem'[g'.next] = before.mem[before.g.cells]
          /\ \A c \in Cells(g') :
                Current(mem', g', c) =
                    IF AliveNext(before.mem, before.g, c) THEN 1 ELSE 0
          /\ mem' = mem
    ]_vars

\* a second step of the 4x3 grid has ended: the pointers are back where they
\* began, the scratch buffer holds the generation the step started from, and
\* the new generation differs from it
C24_Witness ==
    /\ pc = "live"
    /\ generation = 2
    /\ g.width = 4 /\ g.height = 3
    /\ g.cells = ADDR_A /\ g.next = ADDR_B
    /\ before.g.cells = ADDR_B
    /\ mem[g.next] = before.mem[before.g.cells]
    /\ mem[g.cells] # mem[g.next]
    /\ \E c \in Cells(g) : Scratch(mem, g, c) = 1

-----------------------------------------------------------------------------
(* One call of game_set_cell on a fresh grid, then game_step cell by cell *)

InitSingle ==
    /\ \E d \in SingleDims :
         LET r == game_create(d[1], d[2], TRUE, TRUE, TRUE)
         IN  /\ game = r.ret
             /\ g = r.g
             /\ mem = r.mem
             /\ allocs = r.allocs
    /\ pc = "live"
    /\ step_x = 0
    /\ step_y = 0
    /\ op = Call("none", 0, 0, 0, 0)
    /\ before = [g |-> NoGame, mem |-> <<>>]
    /\ generation = 0
    /\ seed = NoSeed
    /\ app = AppStart

\* game_set_cell(game, x, y, alive) while the grid is still entirely dead
SetOnly(x, y, alive) ==
    /\ generation = 0
    /\ \A c \in Cells(g) : Current(mem, g, c) = 0
    /\ SetCell(x, y, alive)

NextSingle ==
    \/ pc = "live" /\ \E x \in XCoords(g), y \in YCoords(g), alive \in AliveArgs :
           SetOnly(x, y, alive)
    \/ StepBegin
    \/ StepCell
    \/ StepRowEnd
    \/ StepSwap

SpecSingle == InitSingle /\ [][NextSingle]_vars

\* C19: a grid whose only live cell is a single cell, anywhere in the grid, is
\* entirely dead after one game_step.
C19_SingleCellDies ==
    (/\ pc = "live"
     /\ generation >= 1
     /\ Cardinality(LiveCells(before.mem, before.g)) = 1)
    => LiveCells(mem, g) = {}

\* the 5x5 grid whose only live cell was (2,2) has been stepped once
C19_Witness ==
    /\ pc = "live"
    /\ generation = 1
    /\ g.width = 5 /\ g.height = 5
    /\ LiveCells(before.mem, before.g) = {<<2, 2>>}
    /\ LiveCells(mem, g) = {}

-----------------------------------------------------------------------------
(* A catalog pattern placed alone on a cleared grid and stepped, as the     *)
(* driver does for --pattern (main.c 156-157, 255-258)                      *)

\* a pattern placed alone: the grid's width w and height h, the pattern and its
\* origin.  Each oscillator has one grid that leaves exactly one cell around
\* it and a larger one; the gun's grid leaves room for the gliders of
\* MaxAloneGen generations.
AloneScenes ==
    { [w |-> 6,  h |-> 4,  type |-> PATTERN_TOAD, x |-> 1, y |-> 1],
      [w |-> 9,  h |-> 8,  type |-> PATTERN_TOAD, x |-> 3, y |-> 2],
      [w |-> 6,  h |-> 6,  type |-> PATTERN_BEACON, x |-> 1, y |-> 1],
      [w |-> 9,  h |-> 8,  type |-> PATTERN_BEACON, x |-> 2, y |-> 3],
      [w |-> 15, h |-> 15, type |-> PATTERN_PULSAR, x |-> 1, y |-> 1],
      [w |-> 17, h |-> 16, type |-> PATTERN_PULSAR, x |-> 2, y |-> 1],
      [w |-> 46, h |-> 32, type |-> PATTERN_GOSPER_GUN, x |-> 1, y |-> 1],
      [w |-> 46, h |-> 32, type |-> PATTERN_GOSPER_GUN, x |-> 2, y |-> 2] }

InitAlone ==
    /\ \E s \in AloneScenes :
         LET r == game_create(s.w, s.h, TRUE, TRUE, TRUE)
         IN  /\ game = r.ret
             /\ g = r.g
             /\ mem = r.mem
             /\ allocs = r.allocs
    /\ pc = "live"
    /\ step_x = 0
    /\ step_y = 0
    /\ op = Call("none", 0, 0, 0, 0)
    /\ before = [g |-> NoGame, mem |-> <<>>]
    /\ generation = 0
    /\ seed = NoSeed
    /\ app = AppStart

\* game_clear(game); pattern_load(game, pt, x, y)
SeedAlone(s) ==
    /\ pc = "live"
    /\ s.w = g.width
    /\ s.h = g.height
    /\ mem' = pattern_load(game_clear(mem, g), g, s.type, s.x, s.y)
    /\ op' = Call("pattern_load", s.x, s.y, s.type, 0)
    /\ seed' = [type |-> s.type, x |-> s.x, y |-> s.y]
    /\ pc' = "seeded"
    /\ UNCHANGED <<game, g, step_x, step_y, before, generation, allocs, app>>

\* one frame of the running loop: game_step(game); generation++
TickAlone ==
    /\ pc = "seeded"
    /\ generation < MaxAloneGen
    /\ mem' = step_rows(mem, g, 0)
    /\ g' = swap_buffers(g)
    /\ generation' = generation + 1
    /\ op' = Call("game_step", 0, 0, 0, 0)
    /\ UNCHANGED <<game, pc, step_x, step_y, before, seed, allocs, app>>

NextAlone ==
    \/ \E s \in AloneScenes : SeedAlone(s)
    \/ TickAlone

SpecAlone == InitAlone /\ [][NextAlone]_vars

\* every cell of set S is at least one cell away from every edge of grid G
HasMargin(G, S) ==
    \A c \in S : /\ 1 <= c[1] /\ c[1] <= G.width - 2
                 /\ 1 <= c[2] /\ c[2] <= G.height - 2

\* C11: placed alone with at least one dead cell of margin around it, toad and
\* beacon have 6 cells and are back at exactly their placed configuration
\* after 2 steps and not after 1; pulsar has 48 cells and is back after 3 steps
\* and not after 1 or 2.  Stated for every generation: the live cells are the
\* placed ones exactly at the multiples of the period.
C11_OscillatorPeriods ==
    (/\ pc = "seeded"
     /\ seed.type \in {PATTERN_TOAD, PATTERN_BEACON, PATTERN_PULSAR}
     /\ HasMargin(g, Stamp(seed.type, seed.x, seed.y)))
    => LET placed == Stamp(seed.type, seed.x, seed.y)
           period == IF seed.type = PATTERN_PULSAR THEN 3 ELSE 2
       IN  /\ Cardinality(placed) = IF seed.type = PATTERN_PULSAR THEN 48 ELSE 6
           /\ (LiveCells(mem, g) = placed) <=> (generation % period = 0)

\* the pulsar placed with exactly one cell of margin is back after 3 steps
C11_Witness ==
    /\ pc = "seeded"
    /\ seed = [type |-> PATTERN_PULSAR, x |-> 1, y |-> 1]
    /\ g.width = 15 /\ g.height = 15
    /\ generation = 3
    /\ LiveCells(mem, g) = Stamp(PATTERN_PULSAR, 1, 1)
    /\ Cardinality(LiveCells(mem, g)) = 48

\* the glider of the catalog and what game_step makes of it after 1, 2 and 3
\* generations, relative to its origin; after 4 it is the first again, moved
\* by (+1, +1)
GliderPhases ==
    << GliderSet,
       {<<0, 1>>, <<2, 1>>, <<1, 2>>, <<2, 2>>, <<1, 3>>},
       {<<2, 1>>, <<0, 2>>, <<2, 2>>, <<1, 3>>, <<2, 3>>},
       {<<1, 1>>, <<2, 2>>, <<3, 2>>, <<1, 3>>, <<2, 3>>} >>

\* the glider phases are what the engine produces: a glider placed clear of
\* the edges is, for its first three generations, the phase of that generation
GliderPhasesAreSteps ==
    (/\ pc = "seeded"
     /\ seed.type = PATTERN_GLIDER
     /\ GliderClearOfEdges(g, seed.x, seed.y)
     /\ generation <= 3)
    => LiveCells(mem, g) = Shifted(GliderPhases[generation + 1], seed.x, seed.y)

\* the origins a glider with a cell in S can have
GliderOrigins(S) ==
    { <<c[1] - dx, c[2] - dy>> : c \in S, dx \in 0 .. 3, dy \in 0 .. 3 }

RECURSIVE Gliders(_, _)
\* set S of cells is exactly n gliders, each in one of its four phases
Gliders(S, n) ==
    IF n = 0 THEN S = {}
    ELSE \E k \in DOMAIN GliderPhases, o \in GliderOrigins(S) :
            LET glider == Shifted(GliderPhases[k], o[1], o[2])
            IN  glider \subseteq S /\ Gliders(S \ glider, n - 1)

\* the gun placed at (ox, oy) and the gliders it emits in the generations
\* followed keep one cell between themselves and every edge of grid G: the gun
\* stays inside columns ox..ox+35 and rows oy..oy+8, and its gliders, moving
\* down and to the right, inside columns ox..ox+41 and rows oy..oy+28
GunClearOfEdges(G, ox, oy) ==
    /\ ox >= 1 /\ ox + 41 <= G.width - 2
    /\ oy >= 1 /\ oy + 28 <= G.height - 2

\* C12: the gosper gun (36 cells) placed on an otherwise empty grid large
\* enough that nothing reaches an edge: after exactly 30 steps the 36 placed
\* cells are alive again and the only other live cells are the 5 cells of one
\* glider; after each further 30 steps the same holds with one more glider.
C12_GunEmitsGliderEvery30 ==
    (/\ pc = "seeded"
     /\ seed.type = PATTERN_GOSPER_GUN
     /\ GunClearOfEdges(g, seed.x, seed.y)
     /\ generation % 30 = 0)
    => LET placed == Stamp(PATTERN_GOSPER_GUN, seed.x, seed.y)
           live   == LiveCells(mem, g)
       IN  /\ Cardinality(placed) = 36
           /\ placed \subseteq live
           /\ Cardinality(live \ placed) = 5 * (generation \div 30)
           /\ Gliders(live \ placed, generation \div 30)

\* the gun placed at (1, 1) after 90 steps, with its three gliders
C12_Witness ==
    /\ pc = "seeded"
    /\ seed = [type |-> PATTERN_GOSPER_GUN, x |-> 1, y |-> 1]
    /\ GunClearOfEdges(g, 1, 1)
    /\ generation = 90
    /\ Stamp(PATTERN_GOSPER_GUN, 1, 1) \subseteq LiveCells(mem, g)
    /\ Cardinality(LiveCells(mem, g)) = 36 + 15

-----------------------------------------------------------------------------
(* Every operation on a created grid, in any order: game_set_cell,          *)
(* game_clear, game_randomize, pattern_load and game_step, until            *)
(* game_destroy                                                             *)

\* pattern_load(game, type, x, y) on the grid as it is
Load(type, x, y) ==
    /\ pc = "live"
    /\ mem' = pattern_load(mem, g, type, x, y)
    /\ op' = Call("pattern_load", x, y, type, 0)
    /\ UNCHANGED <<game, g, pc, step_x, step_y, before, generation, seed, allocs, app>>

NextMix ==
    \/ \E d \in MixDims : Create(d[1], d[2], TRUE, TRUE, TRUE)
    \/ pc = "live" /\ \E c \in Cells(g), alive \in AliveArgs :
           SetCell(c[1], c[2], alive)
    \/ Clear
    \/ pc = "live" /\ \E density10 \in Densities :
           \E draws \in [DOMAIN mem[g.cells] -> RandDraws] : Randomize(density10, draws)
    \/ \E type \in PatternTypes, o \in MixOrigins : Load(type, o[1], o[2])
    \/ Step
    \/ Destroy

SpecMix == Init /\ [][NextMix]_vars

\* C15: after any sequence of set_cell (with any integer alive value), clear,
\* randomize, pattern_load and step on a created grid, every cell of the
\* current and of the scratch buffer holds exactly 0 or 1, and a set_cell with
\* a nonzero alive has stored exactly 1.
C15_CellsAreZeroOrOne ==
    pc = "live" =>
        /\ \A i \in DOMAIN mem[g.cells] : mem[g.cells][i] \in {0, 1}
        /\ \A i \in DOMAIN mem[g.next] : mem[g.next][i] \in {0, 1}
        /\ (/\ op.name = "game_set_cell"
            /\ ~OutOfRange(g, op.x, op.y)
            /\ op.a # 0) => Current(mem, g, <<op.x, op.y>>) = 1

\* set_cell(1, 1, 2) has just stored a 1 on a 2x2 grid that has been stepped
C15_Witness ==
    /\ pc = "live"
    /\ op.name = "game_set_cell"
    /\ op.x = 1 /\ op.y = 1 /\ op.a = 2
    /\ g.width = 2 /\ g.height = 2
    /\ g.cells = ADDR_B
    /\ Current(mem, g, <<1, 1>>) = 1

\* the two buffers of grid G in heap M are non-null, distinct, allocated, and
\* both of length width*height
BuffersOk(M, G) ==
    /\ G.cells # NULL
    /\ G.next # NULL
    /\ G.cells # G.next
    /\ {G.cells, G.next} \subseteq DOMAIN M
    /\ DOMAIN M[G.cells] = 0 .. G.width * G.height - 1
    /\ DOMAIN M[G.next] = 0 .. G.width * G.height - 1

\* C16: from a successful game_create until game_destroy, through any
\* sequence of set_cell, clear, randomize, pattern_load and step, the two
\* buffers are non-null, distinct and of length width*height, and width and
\* height keep the values given at creation.
C16_BuffersAndDimensionsKept ==
    [][/\ (op'.name = "game_create" /\ op'.ret # NULL) =>
              /\ g'.width = op'.x
              /\ g'.height = op'.y
              /\ BuffersOk(mem', g')
       /\ (pc = "live" /\ pc' = "live") =>
              /\ g'.width = g.width
              /\ g'.height = g.height
              /\ BuffersOk(mem', g')
    ]_vars

\* a 3x1 grid after a step, its pointers exchanged, with a live cell
C16_Witness ==
    /\ pc = "live"
    /\ op.name = "game_step"
    /\ g.width = 3 /\ g.height = 1
    /\ g.cells = ADDR_B /\ g.next = ADDR_A
    /\ BuffersOk(mem, g)
    /\ \E c \in Cells(g) : Current(mem, g, c) = 1

-----------------------------------------------------------------------------
(* game_create with dimensions as large as the command line can pass *)

\* main's game_create(grid_w, grid_h) with dimensions from atoi. Where
\* width * height overflows, the behaviour is undefined: the build either
\* traps (trap, the process is aborted inside game_create) or carries on with
\* the wrapped product.
CreateWide(width, height, okG, okC, okN, trap) ==
    /\ pc = "start"
    /\ IF okG /\ mul_int_overflows(width, height) /\ trap
       THEN /\ pc' = "aborted"
            /\ op' = Call("game_create", width, height, 0, NULL)
            /\ allocs' = allocated(NoAllocs, {ADDR_G})
            /\ UNCHANGED <<game, g, mem>>
       ELSE LET r == game_create(width, height, okG, okC, okN)
            IN  /\ game' = r.ret
                /\ g' = r.g
                /\ mem' = r.mem
                /\ pc' = IF r.ret = NULL THEN "failed" ELSE "live"
                /\ op' = Call("game_create", width, height, 0, r.ret)
                /\ allocs' = r.allocs
    /\ UNCHANGED <<step_x, step_y, before, generation, seed, app>>

NextWide ==
    \/ \E width \in WideDims, height \in WideDims, okG, okC, okN, trap \in BOOLEAN :
           CreateWide(width, height, okG, okC, okN, trap)
    \/ Destroy

SpecWide == Init /\ [][NextWide]_vars

\* whether n is the product w * h, decided without forming the product
IsProduct(n, w, h) ==
    IF w = 0 \/ h = 0
    THEN n = 0
    ELSE /\ (w < 0) = (h < 0)
         /\ (n % Abs(w)) = 0
         /\ (n \div Abs(w)) = Abs(h)

\* C28: for every (width, height) for which game_create returns a grid, the
\* product width * height was formed without overflowing a 32-bit int and
\* each of the two buffers has exactly width * height cells, so that cell
\* (0, 0) of a grid with positive dimensions lies inside both buffers.
C28_BuffersHoldEveryCell ==
    (op.name = "game_create" /\ op.ret # NULL /\ pc = "live") =>
        /\ ~mul_int_overflows(g.width, g.height)
        /\ IsProduct(Cardinality(DOMAIN mem[g.cells]), g.width, g.height)
        /\ IsProduct(Cardinality(DOMAIN mem[g.next]), g.width, g.height)
        /\ (g.width > 0 /\ g.height > 0) =>
               (0 \in DOMAIN mem[g.cells] /\ 0 \in DOMAIN mem[g.next])

-----------------------------------------------------------------------------
(* main.c and render.c: the driver from its command line to its return *)

\* the address malloc hands out for the Renderer struct
ADDR_R == 4

\* a / b on ints with b > 0: the quotient truncated toward zero
c_div(a, b) == IF a >= 0 THEN a \div b ELSE -((-a) \div b)

\* the clamp of target_fps after the arguments are parsed
clamp_fps(fps) ==
    LET low == IF fps < 1 THEN 1 ELSE fps
    IN  IF low > 60 THEN 60 ELSE low

\* the sequences of values rand() may return during one game_randomize of
\* grid G: two mixtures of 0 and RAND_MAX
DrawSeqs(G) ==
    LET n == G.width * G.height
    IN  { [i \in 0 .. n - 1 |-> IF i % 2 = 0 THEN 0 ELSE RAND_MAX],
          [i \in 0 .. n - 1 |-> IF i % 3 = 0 THEN RAND_MAX ELSE 0] }

\* the tail of every action of main that leaves the grid alone
GridUnchanged == UNCHANGED <<game, g, mem, pc, step_x, step_y, op, before, seed, allocs>>

\* the argument loop and the clamp. how: "run" for options main accepts,
\* "help" for --help, "unknown" for an option it does not know.
ParseArgs(dims, name, fps, how) ==
    /\ app.at = "args"
    /\ app' = IF how = "help" THEN [app EXCEPT !.at = "returned", !.ret = 0]
              ELSE IF how = "unknown" THEN [app EXCEPT !.at = "returned", !.ret = 1]
              ELSE [app EXCEPT !.at = "sdl_init",
                               !.grid_w = dims[1],
                               !.grid_h = dims[2],
                               !.pattern_name = name,
                               !.target_fps = clamp_fps(fps)]
    /\ UNCHANGED generation
    /\ GridUnchanged

\* SDL_Init
SdlInit(ok) ==
    /\ app.at = "sdl_init"
    /\ app' = IF ok THEN [app EXCEPT !.at = "create"]
              ELSE [app EXCEPT !.at = "returned", !.ret = 1]
    /\ UNCHANGED generation
    /\ GridUnchanged

\* game = game_create(grid_w, grid_h); on NULL main returns 1
CreateGame(okG, okC, okN) ==
    /\ app.at = "create"
    /\ LET r == game_create(app.grid_w, app.grid_h, okG, okC, okN)
       IN  /\ game' = r.ret
           /\ g' = r.g
           /\ mem' = r.mem
           /\ allocs' = r.allocs
           /\ pc' = IF r.ret = NULL THEN "failed" ELSE "live"
           /\ op' = Call("game_create", app.grid_w, app.grid_h, 0, r.ret)
           /\ app' = IF r.ret = NULL
                     THEN [app EXCEPT !.at = "returned", !.ret = 1]
                     ELSE [app EXCEPT !.at = "renderer"]
    /\ UNCHANGED <<step_x, step_y, before, generation, seed>>

\* the failure path of renderer_create without its game_destroy (faulty variant)
CreateRendererLeak(ok) ==
    /\ app.at = "renderer"
    /\ app' = IF ok THEN [app EXCEPT !.at = "seed", !.renderer = ADDR_R]
              ELSE [app EXCEPT !.at = "returned", !.ret = 1]
    /\ UNCHANGED generation
    /\ GridUnchanged

\* renderer = renderer_create(...); on NULL main destroys the grid and
\* returns 1
CreateRenderer(ok) ==
    /\ app.at = "renderer"
    /\ IF ok
       THEN /\ app' = [app EXCEPT !.at = "seed", !.renderer = ADDR_R]
            /\ UNCHANGED <<mem, pc, op, allocs>>
       ELSE /\ mem' = game_destroy(mem, game)
            /\ allocs' = game_destroy_frees(allocs, g, game)
            /\ pc' = "destroyed"
            /\ op' = Call("game_destroy", 0, 0, 0, 0)
            /\ app' = [app EXCEPT !.at = "returned", !.ret = 1,
                                  !.destroys = @ + 1]
    /\ UNCHANGED <<game, g, step_x, step_y, before, generation, seed>>

\* the seeding that leaves the grid empty when the name is not recognised
\* (faulty variant)
seed_grid_nofallback(M, G, A, draws) ==
    IF strcmp(A.pattern_name, "random") = 0
    THEN [mem |-> game_randomize(M, G, A.density10, draws),
          seed |-> NoSeed, op |-> Call("game_randomize", 0, 0, A.density10, 0)]
    ELSE LET r == pattern_from_name(A.pattern_name, PT_UNSET)
         IN  IF r.ret # 0
             THEN [mem |-> pattern_load(game_clear(M, G), G, r.out,
                                        c_div(A.grid_w, 4), c_div(A.grid_h, 4)),
                   seed |-> [type |-> r.out, x |-> c_div(A.grid_w, 4),
                             y |-> c_div(A.grid_h, 4)],
                   op |-> Call("pattern_load", c_div(A.grid_w, 4),
                               c_div(A.grid_h, 4), r.out, 0)]
             ELSE [mem |-> M, seed |-> NoSeed,
                   op |-> CallStr("pattern_from_name", A.pattern_name, 0, 0)]

\* the initial state of the grid: what main's if / else if / else leaves in
\* the heap, in pt and its origin (seed), and the last call it made (op)
seed_grid(M, G, A, draws) ==
    IF strcmp(A.pattern_name, "random") = 0
    THEN [mem |-> game_randomize(M, G, A.density10, draws),
          seed |-> NoSeed, op |-> Call("game_randomize", 0, 0, A.density10, 0)]
    ELSE LET r == pattern_from_name(A.pattern_name, PT_UNSET)
         IN  IF r.ret # 0
             THEN [mem |-> pattern_load(game_clear(M, G), G, r.out,
                                        c_div(A.grid_w, 4), c_div(A.grid_h, 4)),
                   seed |-> [type |-> r.out, x |-> c_div(A.grid_w, 4),
                             y |-> c_div(A.grid_h, 4)],
                   op |-> Call("pattern_load", c_div(A.grid_w, 4),
                               c_div(A.grid_h, 4), r.out, 0)]
             ELSE [mem |-> game_randomize(M, G, A.density10, draws),
                   seed |-> NoSeed,
                   op |-> Call("game_randomize", 0, 0, A.density10, 0)]

\* the seeding, then running = 1, paused = 0, generation = 0 and
\* frame_delay = 1000 / target_fps: main enters its loop
SeedGrid(draws) ==
    /\ app.at = "seed"
    /\ LET r == seed_grid(mem, g, app, draws)
       IN  /\ mem' = r.mem
           /\ seed' = r.seed
           /\ op' = r.op
    /\ generation' = 0
    /\ app' = [app EXCEPT !.at = "events", !.running = 1, !.paused = 0,
                          !.frame_delay = c_div(1000, app.target_fps)]
    /\ UNCHANGED <<game, g, pc, step_x, step_y, before, allocs>>

\* the events SDL_PollEvent delivers: window close, the keys main handles,
\* and a key it ignores
Events == {"QUIT", "ESCAPE", "SPACE", "r", "PLUS", "EQUALS", "MINUS", "a"}

\* case SDLK_PLUS / SDLK_EQUALS / SDLK_KP_PLUS
key_plus(A) ==
    IF A.target_fps < 60
    THEN [A EXCEPT !.target_fps = A.target_fps + 2,
                   !.frame_delay = c_div(1000, A.target_fps + 2)]
    ELSE A

\* case SDLK_MINUS / SDLK_KP_MINUS
key_minus(A) ==
    IF A.target_fps > 1
    THEN LET fps == IF A.target_fps - 2 < 1 THEN 1 ELSE A.target_fps - 2
         IN  [A EXCEPT !.target_fps = fps, !.frame_delay = c_div(1000, fps)]
    ELSE A

\* case SDLK_r without generation = 0 (faulty variant)
key_r_generation_kept(gen) == gen

\* case SDLK_r: the value generation is given
key_r_generation(gen) == 0

\* one event of the while (SDL_PollEvent(&event)) loop; case SDLK_r draws
\* from rand()
Event(e) ==
    /\ app.at = "events"
    /\ e \in {"PLUS", "EQUALS", "MINUS"} => app.speed_keys < MaxSpeedKeys
    /\ IF e = "r"
       THEN /\ \E draws \in DrawSeqs(g) :
                 mem' = game_randomize(mem, g, app.density10, draws)
            /\ op' = Call("game_randomize", 0, 0, app.density10, 0)
            /\ generation' = key_r_generation(generation)
            /\ app' = [app EXCEPT !.steps = 0]
       ELSE /\ app' = CASE e \in {"QUIT", "ESCAPE"} -> [app EXCEPT !.running = 0]
                         [] e = "SPACE" -> [app EXCEPT !.paused = 1 - app.paused]
                         [] e \in {"PLUS", "EQUALS"} ->
                                [key_plus(app) EXCEPT !.speed_keys = @ + 1]
                         [] e = "MINUS" ->
                                [key_minus(app) EXCEPT !.speed_keys = @ + 1]
                         [] OTHER -> app
            /\ UNCHANGED <<mem, op, generation>>
    /\ UNCHANGED <<game, g, pc, step_x, step_y, before, seed, allocs>>

\* the tick that steps whether or not the loop is paused (faulty variant)
tick_always(M, G, gen, paused) ==
    [mem |-> step_rows(M, G, 0), g |-> swap_buffers(G), generation |-> gen + 1,
     calls |-> 1]

\* if (!paused) { game_step(game); generation++; }: the heap, the struct and
\* the counter it leaves, and how many times it called game_step
tick(M, G, gen, paused) ==
    IF paused = 0
    THEN [mem |-> step_rows(M, G, 0), g |-> swap_buffers(G),
          generation |-> gen + 1, calls |-> 1]
    ELSE [mem |-> M, g |-> G, generation |-> gen, calls |-> 0]

\* the event queue is empty: the frame's tick
FrameTick ==
    /\ app.at = "events"
    /\ app.paused = 0 => generation < MaxDriverGen
    /\ LET r == tick(mem, g, generation, app.paused)
       IN  /\ mem' = r.mem
           /\ g' = r.g
           /\ generation' = r.generation
           /\ op' = IF r.calls > 0 THEN Call("game_step", 0, 0, 0, 0) ELSE op
           /\ app' = [app EXCEPT !.at = "draw", !.steps = @ + r.calls]
    /\ UNCHANGED <<game, pc, step_x, step_y, before, seed, allocs>>

\* renderer_draw whose inner loop runs to x <= width (faulty variant)
renderer_draw_wide(M, G) ==
    LET reads == (0 .. G.width) \X (0 .. G.height - 1)
    IN  [mem |-> M, g |-> G, reads |-> reads,
         filled |-> { c \in reads : game_get_cell(M, G, c[1], c[2]) # 0 }]

\* renderer_draw: the two loops call game_get_cell(g, x, y) for y below height
\* and x below width and fill a rectangle for every nonzero answer (filled);
\* the grid lines use only width and height
renderer_draw(M, G) ==
    LET reads == (0 .. G.width - 1) \X (0 .. G.height - 1)
    IN  [mem |-> M, g |-> G, reads |-> reads,
         filled |-> { c \in reads : game_get_cell(M, G, c[1], c[2]) # 0 }]

\* the rest of the frame: renderer_draw, renderer_draw_hud (which formats the
\* window title from generation, paused and target_fps and is handed no
\* Game), the frame delay, and the test of running
Draw ==
    /\ app.at = "draw"
    /\ LET r == renderer_draw(mem, g)
       IN  /\ mem' = r.mem
           /\ g' = r.g
           /\ app' = [app EXCEPT
                         !.at = IF app.running # 0 THEN "events" ELSE "cleanup",
                         !.reads = r.reads]
    /\ UNCHANGED <<game, pc, step_x, step_y, op, before, generation, seed, allocs>>

\* renderer_destroy, game_destroy, SDL_Quit, return 0
Cleanup ==
    /\ app.at = "cleanup"
    /\ mem' = game_destroy(mem, game)
    /\ allocs' = game_destroy_frees(allocs, g, game)
    /\ pc' = "destroyed"
    /\ op' = Call("game_destroy", 0, 0, 0, 0)
    /\ app' = [app EXCEPT !.at = "returned", !.ret = 0, !.renderer = NULL,
                          !.destroys = @ + 1]
    /\ UNCHANGED <<game, g, step_x, step_y, before, generation, seed>>

NextDriver ==
    \/ \E dims \in DriverDims, name \in PatternArgs, fps \in FpsArgs,
          how \in {"run", "help", "unknown"} : ParseArgs(dims, name, fps, how)
    \/ \E ok \in BOOLEAN : SdlInit(ok)
    \/ \E okG, okC, okN \in BOOLEAN : CreateGame(okG, okC, okN)
    \/ \E ok \in BOOLEAN : CreateRenderer(ok)
    \/ app.at = "seed" /\ \E draws \in DrawSeqs(g) : SeedGrid(draws)
    \/ \E e \in Events : Event(e)
    \/ FrameTick
    \/ Draw
    \/ Cleanup

SpecDriver == Init /\ [][NextDriver]_vars

\* the cells game_randomize leaves alive on grid G when rand() returns draws
\* and the density is density10 tenths
DrawnAlive(G, density10, draws) ==
    { c \in Cells(G) : draw_below(draws[c[2] * G.width + c[1]], density10) }

\* the catalog's names and the pattern each stands for
CatalogNames ==
    [glider |-> PATTERN_GLIDER, blinker |-> PATTERN_BLINKER, toad |-> PATTERN_TOAD,
     beacon |-> PATTERN_BEACON, pulsar |-> PATTERN_PULSAR,
     gosper |-> PATTERN_GOSPER_GUN, gosper_gun |-> PATTERN_GOSPER_GUN]

\* C21: the driver's startup seeding. With the name "random" the grid is
\* randomized; with a name of the catalog the live cells of generation 0 are
\* exactly the cells of that pattern, placed at (grid_w / 4, grid_h / 4), that
\* fall inside the grid; with any other name the grid is randomized as well;
\* and in every case main goes on into its loop with generation 0 instead of
\* returning.
C21_StartupSeeding ==
    [][(app.at = "seed" /\ app'.at # "seed") =>
          LET name == app.pattern_name
              Randomized ==
                  /\ op'.name = "game_randomize"
                  /\ \E draws \in DrawSeqs(g) :
                        LiveCells(mem', g') = DrawnAlive(g, app.density10, draws)
          IN  /\ app'.at = "events"
              /\ app'.running = 1
              /\ app'.ret = -1
              /\ generation' = 0
              /\ g' = g
              /\ pc' = "live"
              /\ name = "random" => Randomized
              /\ name \in DOMAIN CatalogNames =>
                    LiveCells(mem', g') =
                        Stamp(CatalogNames[name], app.grid_w \div 4,
                              app.grid_h \div 4) \cap Cells(g)
              /\ name \notin DOMAIN CatalogNames \cup {"random"} => Randomized
    ]_vars

\* main is in its loop at generation 0 on the 8x6 grid after --pattern Glider,
\* a name the catalog does not know: the grid was randomized, with live and
\* dead cells
C21_Witness ==
    /\ app.at = "events"
    /\ app.pattern_name = "Glider"
    /\ app.running = 1
    /\ app.steps = 0 /\ generation = 0
    /\ g.width = 8 /\ g.cells = ADDR_A
    /\ op.name = "game_randomize"
    /\ seed = NoSeed
    /\ LiveCells(mem, g) # {}
    /\ LiveCells(mem, g) # Cells(g)

\* C22: the tick of a frame calls game_step exactly once when the pause flag
\* is clear after the frame's events (the grid moves to Conway's next
\* generation with its buffers exchanged, one more step is counted) and not at
\* all when it is set (heap, struct and step count stay as they were); and
\* over any step of the loop that begins and ends paused, whatever SPACE, R, +
\* and - events came before, the live cells change only by an R-key randomize.
C22_PauseGatesStep ==
    [][/\ (app.at = "events" /\ app'.at = "draw") =>
            IF app.paused = 0
            THEN /\ op'.name = "game_step"
                 /\ app'.steps = app.steps + 1
                 /\ g' = [g EXCEPT !.cells = g.next, !.next = g.cells]
                 /\ \A c \in Cells(g) :
                       Current(mem', g', c) = IF AliveNext(mem, g, c) THEN 1 ELSE 0
            ELSE /\ mem' = mem
                 /\ g' = g
                 /\ op' = op
                 /\ app'.steps = app.steps
       /\ (/\ app.at \in {"events", "draw"}
           /\ app.paused = 1
           /\ app'.paused = 1
           /\ (mem' # mem \/ g' # g)) =>
              /\ op'.name = "game_randomize"
              /\ app.at = "events" /\ app'.at = "events"
              /\ app'.steps = 0
    ]_vars

\* a paused frame has ticked without a step: one earlier frame stepped the
\* grid, then SPACE and two speed keys were handled
C22_Witness ==
    /\ app.at = "draw"
    /\ app.paused = 1
    /\ app.running = 1
    /\ app.speed_keys = 2
    /\ app.steps = 1
    /\ op.name = "game_step"
    /\ g.cells = ADDR_B
    /\ LiveCells(mem, g) # {}

\* C23: rendering a frame leaves the grid as it was (the pointer, width,
\* height, which buffer is current, every cell of both buffers) and passes
\* game_get_cell only coordinates with 0 <= x < width and 0 <= y < height.
C23_RenderReadsOnly ==
    [][app.at = "draw" =>
          /\ game' = game
          /\ g' = g
          /\ mem' = mem
          /\ app'.reads \subseteq Cells(g)
    ]_vars

\* a frame of the 8x6 grid has been drawn after a step: every cell was read,
\* some alive and some dead, and the current buffer is the second one
C23_Witness ==
    /\ app.at = "events"
    /\ app.reads = Cells(g)
    /\ g.width = 8 /\ g.height = 6
    /\ g.cells = ADDR_B
    /\ op.name = "game_step"
    /\ LiveCells(mem, g) # {}
    /\ LiveCells(mem, g) # Cells(g)

\* C25: once the arguments are parsed and clamped, and after any sequence of
\* + / = and - key events, 1 <= target_fps <= 60; and in the loop frame_delay
\* equals 1000 / target_fps.
C25_FpsWithinLimits ==
    /\ app.at # "args" => (1 <= app.target_fps /\ app.target_fps <= 60)
    /\ app.at \in {"events", "draw", "cleanup"} =>
          app.frame_delay = 1000 \div app.target_fps

\* C26: the generation counter equals the number of game_step calls made
\* since main began or since the last R-key randomize: it is 0 when the loop
\* is entered, goes up by exactly one in a frame that steps, stays as it is
\* in a paused frame, and is 0 after an R key.
C26_GenerationCountsSteps ==
    [][/\ generation' = app'.steps
       /\ (app.at = "seed" /\ app'.at = "events") => generation' = 0
       /\ (app.at = "events" /\ app'.at = "draw") =>
             generation' = IF app.paused = 0 THEN generation + 1 ELSE generation
       /\ (app.at = "events" /\ app'.at = "events"
              /\ op'.name = "game_randomize" /\ app'.steps = 0) =>
             generation' = 0
    ]_vars

\* an R key has just randomized a grid that was seeded with the glider and
\* stepped once: the counter is back at 0
C26_Witness ==
    /\ app.at = "events"
    /\ op.name = "game_randomize"
    /\ seed.type = PATTERN_GLIDER
    /\ g.cells = ADDR_B
    /\ generation = 0
    /\ app.steps = 0
    /\ LiveCells(mem, g) # {}

\* C27: when main returns after game_create succeeded (renderer_create
\* failed, or the loop was left by ESC or window close), game_destroy has been
\* called exactly once, it was the last call made on the grid, and the struct
\* and both buffers have each been freed once; when main returns before
\* game_create, no call on the grid was made and nothing was allocated; and
\* once the grid is destroyed nothing reads or writes it.
C27_GridDestroyedOnce ==
    [][/\ app'.at = "returned" =>
            IF {ADDR_G, ADDR_A, ADDR_B} \subseteq allocs'.made /\ game' # NULL
            THEN /\ app'.destroys = 1
                 /\ pc' = "destroyed"
                 /\ op'.name = "game_destroy"
                 /\ \A p \in allocs'.made : TimesFreed(allocs', p) = 1
            ELSE /\ app'.destroys = 0
                 /\ pc' \in {"start", "failed"}
                 /\ pc' = "start" =>
                       (op'.name = "none" /\ mem' = <<>> /\ allocs' = NoAllocs)
       /\ app.destroys > 0 =>
            (mem' = mem /\ g' = g /\ op' = op /\ app'.reads = app.reads)
    ]_vars

\* main has returned 1 because renderer_create failed: the grid it had
\* created was destroyed once and never seeded, stepped or drawn
C27_Witness ==
    /\ app.at = "returned"
    /\ app.ret = 1
    /\ app.renderer = NULL
    /\ app.destroys = 1
    /\ pc = "destroyed"
    /\ op.name = "game_destroy"
    /\ allocs.freed = <<ADDR_A, ADDR_B, ADDR_G>>
    /\ app.reads = {}

=============================================================================
